---- MODULE Spec2Model ----
(***************************************************************************)
(* Model of runpod/serverless/modules/rp_fastapi.py: the WorkerAPI local   *)
(* debugging server.  One worker process: the module-level state           *)
(* (RUNPOD_ENDPOINT_ID, heartbeat, the worker_state job id), one WorkerAPI *)
(* instance, and a bounded number of HTTP requests.  The endpoints are     *)
(* `async def` coroutines without any await, so the event loop runs one    *)
(* of them at a time from its first statement to its return or raise; the  *)
(* statements are separate steps of the model because other threads (the   *)
(* heartbeat) can observe the state between them.                          *)
(***************************************************************************)
EXTENDS Integers, Sequences, FiniteSets, TLC

\* ------------------------------------------------------------------ bounds
MaxReqs == 2
\* WorkerAPI objects constructed in the process, at most.
MaxApis == 2

Reqs == 1..MaxReqs

\* ------------------------------------------------------- Python-level values
None == "<None>"
Missing == "<missing>"

\* A Python value is tagged with its type; a dict or a list is the set of its
\* <<key, value>> items (a list is keyed by the index written as a string).
PyDict(items) == [type |-> "dict", items |-> items]
PyList(items) == [type |-> "list", items |-> items]

IsMapping(v) == v.type = "dict"
HasKey(v, k) == \E p \in v.items : p[1] = k
Keys(v) == {p[1] : p \in v.items}
GetItem(v, k) == (CHOOSE p \in v.items : p[1] = k)[2]

\* d[k] = x on a dict: replaces the item of key k, keeps every other item.
SetItem(v, k, x) == PyDict({p \in v.items : p[1] # k} \cup {<<k, x>>})

\* ------------------------------------------------------------- input sets
ExplicitIds == {"job-1", "job-2"}
Inputs == {"x", "y"}
RouteNames == {"run", "test_run"}
EndpointIds == {None, "", "ep1"}
HandlerNames == {"h_result", "h_echo", "h_list", "h_raise"}

\* Request bodies as posted: the id may be omitted.
Bodies == [id : ExplicitIds \cup {Missing}, input : Inputs]

\* ------------------------------------------------------ pydantic job models
\* class Job: id is required.  A body without id fails validation.
Job(b) ==
    IF b.id = Missing THEN [valid |-> FALSE, id |-> None, input |-> b.input]
    ELSE [valid |-> TRUE, id |-> b.id, input |-> b.input]

\* Variant of TestJob whose id default is not the sentinel.
TestJob_other_default(b) ==
    [valid |-> TRUE,
     id |-> IF b.id = Missing THEN "job-1" ELSE b.id,
     input |-> b.input]

\* class TestJob: id defaults to "test_job".
TestJob(b) ==
    [valid |-> TRUE,
     id |-> IF b.id = Missing THEN "test_job" ELSE b.id,
     input |-> b.input]

NoJob == [valid |-> FALSE, id |-> None, input |-> None]

\* ------------------------------------------------------------ the handlers
\* A handler is user code; each name is one deterministic handler.  The call
\* either returns a value or raises with a message.
Returned(v) == [raised |-> FALSE, value |-> v, msg |-> ""]
Raised(m) == [raised |-> TRUE, value |-> PyDict({}), msg |-> m]

HandlerCall(h, job) ==
    CASE h = "h_result" -> Returned(PyDict({<<"result", "42">>}))
      [] h = "h_echo"   -> Returned(PyDict({<<"id", "handler-id">>, <<"output", job.input>>}))
      [] h = "h_list"   -> Returned(PyList({<<"0", job.input>>}))
      [] h = "h_raise"  -> Raised("bad input")

\* run_job(handler, job): invokes the handler, returns its output as-is, and
\* turns a failure raised by the handler into {"error": <message>}.
run_job(h, job) ==
    LET out == HandlerCall(h, job)
    IN  IF out.raised THEN PyDict({<<"error", out.msg>>}) ELSE out.value

\* jsonable_encoder(obj): rebuilds a dict or list item by item; strings are
\* returned as they are.
jsonable_encoder(v) ==
    IF v.type = "dict" THEN PyDict({<<p[1], p[2]>> : p \in v.items})
    ELSE PyList({<<p[1], p[2]>> : p \in v.items})

HandlerNotProvided == PyDict({<<"error", "Handler not provided">>})
NoValue == PyDict({})

\* `if RUNPOD_ENDPOINT_ID:` - None and the empty string are falsy.
Truthy(s) == s # None /\ s # ""

RealtimePath(eid) == <<eid, "realtime">>
RunsyncPath == <<"runsync">>

\* ------------------------------------------------------------------ state
VARIABLES
    RUNPOD_ENDPOINT_ID, \* module constant read from the environment at import
    heartbeat,          \* the module-level HeartbeatSender: start_ping calls,
                        \* emission in progress, parity of the emission attempts
    job_id,             \* worker_state: the Job Identity Store
    constructed,        \* a WorkerAPI has been constructed
    config,             \* WorkerAPI.config
    routes,             \* paths registered on the APIRouter
    serving,            \* start_uvicorn has been called
    loop,               \* request whose coroutine the event loop is running, 0 if none
    pc,                 \* per request: position of the request / of its coroutine
    route,              \* per request: endpoint it was posted to
    body,               \* per request: the request body as posted
    job,                \* per request: the validated job model
    job_results,        \* per request: local variable job_results
    response,           \* per request: value returned by the endpoint
    after               \* per request: job_id observed when the dispatch ended

vars == <<RUNPOD_ENDPOINT_ID, heartbeat, job_id, constructed, config, routes,
          serving, loop, pc, route, body, job, job_results, response, after>>

env == <<RUNPOD_ENDPOINT_ID, heartbeat, constructed, config, routes, serving>>

\* worker_state.set_job_id(new_job_id): overwrites the slot unconditionally.
set_job_id(new_job_id) == job_id' = new_job_id

\* State after the module is imported: lines 15 and 35 have run, nothing else.
Init ==
    /\ RUNPOD_ENDPOINT_ID \in EndpointIds
    /\ heartbeat = [starts |-> 0, sending |-> FALSE, beat |-> 0]
    /\ job_id = None
    /\ constructed = FALSE
    /\ config = [handler |-> None]
    /\ routes = {}
    /\ serving = FALSE
    /\ loop = 0
    /\ pc = [r \in Reqs |-> "free"]
    /\ route = [r \in Reqs |-> "test_run"]
    /\ body = [r \in Reqs |-> [id |-> Missing, input |-> None]]
    /\ job = [r \in Reqs |-> NoJob]
    /\ job_results = [r \in Reqs |-> NoValue]
    /\ response = [r \in Reqs |-> NoValue]
    /\ after = [r \in Reqs |-> None]

\* HeartbeatSender.start_ping()
start_ping == heartbeat' = [heartbeat EXCEPT !.starts = @ + 1]

\* Variant of add_api_routes that registers the real-job route unconditionally.
add_api_routes_always(eid) == {RealtimePath(eid)} \cup {RunsyncPath}

\* Routes added by __init__ (lines 75-84).
add_api_routes(eid) ==
    (IF Truthy(eid) THEN {RealtimePath(eid)} ELSE {}) \cup {RunsyncPath}

\* Variant of WorkerAPI_init that does not start the heartbeat.
WorkerAPI_init_no_heartbeat(handler) ==
    /\ ~constructed
    /\ config' = [handler |-> handler]
    /\ routes' = add_api_routes(RUNPOD_ENDPOINT_ID)
    /\ constructed' = TRUE
    /\ UNCHANGED <<RUNPOD_ENDPOINT_ID, heartbeat, job_id, serving, loop, pc, route,
                   body, job, job_results, response, after>>

\* WorkerAPI.__init__(handler)
WorkerAPI_init(handler) ==
    /\ ~constructed
    /\ start_ping
    /\ config' = [handler |-> handler]
    /\ routes' = add_api_routes(RUNPOD_ENDPOINT_ID)
    /\ constructed' = TRUE
    /\ UNCHANGED <<RUNPOD_ENDPOINT_ID, job_id, serving, loop, pc, route, body, job,
                   job_results, response, after>>

\* WorkerAPI.start_uvicorn(): from here on requests are accepted.
start_uvicorn ==
    /\ constructed
    /\ ~serving
    /\ serving' = TRUE
    /\ UNCHANGED <<RUNPOD_ENDPOINT_ID, heartbeat, job_id, constructed, config,
                   routes, loop, pc, route, body, job, job_results, response, after>>

\* Path a client posts to for each endpoint.
PathOf(rt) == IF rt = "run" THEN RealtimePath(RUNPOD_ENDPOINT_ID) ELSE RunsyncPath

\* The transport layer receives POST <path> with a body: an unregistered path
\* is answered 404, a body that fails the endpoint's model 422, otherwise the
\* endpoint coroutine is scheduled with the validated model.
Post(r, rt, b) ==
    LET model == IF rt = "run" THEN Job(b) ELSE TestJob(b)
    IN  /\ serving
        /\ pc[r] = "free"
        /\ \A q \in Reqs : q < r => pc[q] # "free"
        /\ route' = [route EXCEPT ![r] = rt]
        /\ body' = [body EXCEPT ![r] = b]
        /\ IF PathOf(rt) \notin routes
             THEN pc' = [pc EXCEPT ![r] = "not_found"] /\ UNCHANGED job
             ELSE IF ~model.valid
                    THEN pc' = [pc EXCEPT ![r] = "invalid"] /\ UNCHANGED job
                    ELSE /\ pc' = [pc EXCEPT ![r] = "pending"]
                         /\ job' = [job EXCEPT ![r] = model]
        /\ UNCHANGED <<env, job_id, loop, job_results, response, after>>

\* ---------------------------------------------------------- WorkerAPI.run
\* Variant of run_enter that sets the job id before the handler check.
run_enter_sets_first(r) ==
    /\ pc[r] = "pending" /\ route[r] = "run" /\ loop = 0
    /\ set_job_id(job[r].id)
    /\ IF config.handler = None
         THEN /\ response' = [response EXCEPT ![r] = HandlerNotProvided]
              /\ pc' = [pc EXCEPT ![r] = "done"]
              /\ after' = [after EXCEPT ![r] = job_id']
              /\ UNCHANGED loop
         ELSE /\ pc' = [pc EXCEPT ![r] = "set"]
              /\ loop' = r
              /\ UNCHANGED <<response, after>>
    /\ UNCHANGED <<env, route, body, job, job_results>>

\* Variant of run_enter that does not wait for the event loop to be free, as
\* if the endpoint ran in a thread pool or the running coroutine had suspended.
run_enter_concurrent(r) ==
    /\ pc[r] = "pending" /\ route[r] = "run"
    /\ IF config.handler = None
         THEN /\ response' = [response EXCEPT ![r] = HandlerNotProvided]
              /\ pc' = [pc EXCEPT ![r] = "done"]
              /\ after' = [after EXCEPT ![r] = job_id]
              /\ UNCHANGED <<job_id, loop>>
         ELSE /\ set_job_id(job[r].id)
              /\ pc' = [pc EXCEPT ![r] = "set"]
              /\ loop' = r
              /\ UNCHANGED <<response, after>>
    /\ UNCHANGED <<env, route, body, job, job_results>>

\* lines 102-106: the handler check and set_job_id(job.id)
run_enter(r) ==
    /\ pc[r] = "pending" /\ route[r] = "run" /\ loop = 0
    /\ IF config.handler = None
         THEN /\ response' = [response EXCEPT ![r] = HandlerNotProvided]
              /\ pc' = [pc EXCEPT ![r] = "done"]
              /\ after' = [after EXCEPT ![r] = job_id]
              /\ UNCHANGED <<job_id, loop>>
         ELSE /\ set_job_id(job[r].id)
              /\ pc' = [pc EXCEPT ![r] = "set"]
              /\ loop' = r
              /\ UNCHANGED <<response, after>>
    /\ UNCHANGED <<env, route, body, job, job_results>>

\* Variant of run_invoke that resets the job id before calling run_job.
run_invoke_clears(r) ==
    /\ pc[r] = "set" /\ route[r] = "run" /\ loop = r
    /\ set_job_id(None)
    /\ pc' = [pc EXCEPT ![r] = "in_handler"]
    /\ UNCHANGED <<env, loop, route, body, job, job_results, response, after>>

\* line 109: run_job is entered, the handler is executing
run_invoke(r) ==
    /\ pc[r] = "set" /\ route[r] = "run" /\ loop = r
    /\ pc' = [pc EXCEPT ![r] = "in_handler"]
    /\ UNCHANGED <<env, job_id, loop, route, body, job, job_results, response, after>>

\* line 109: run_job returns and job_results is assigned
run_result(r) ==
    /\ pc[r] = "in_handler" /\ route[r] = "run" /\ loop = r
    /\ job_results' = [job_results EXCEPT ![r] = run_job(config.handler, job[r])]
    /\ pc' = [pc EXCEPT ![r] = "ran"]
    /\ UNCHANGED <<env, job_id, loop, route, body, job, response, after>>

\* Variant of run_clear that forgets to reset the job id.
run_clear_skipped(r) ==
    /\ pc[r] = "ran" /\ route[r] = "run" /\ loop = r
    /\ pc' = [pc EXCEPT ![r] = "cleared"]
    /\ UNCHANGED <<env, job_id, loop, route, body, job, job_results, response, after>>

\* line 112: set_job_id(None)
run_clear(r) ==
    /\ pc[r] = "ran" /\ route[r] = "run" /\ loop = r
    /\ set_job_id(None)
    /\ pc' = [pc EXCEPT ![r] = "cleared"]
    /\ UNCHANGED <<env, loop, route, body, job, job_results, response, after>>

\* Variant of run_return that stamps the job id as test_run does.
run_return_stamps(r) ==
    /\ pc[r] = "cleared" /\ route[r] = "run" /\ loop = r
    /\ response' = [response EXCEPT ![r] =
                       IF IsMapping(job_results[r])
                         THEN jsonable_encoder(SetItem(job_results[r], "id", job[r].id))
                         ELSE jsonable_encoder(job_results[r])]
    /\ pc' = [pc EXCEPT ![r] = "done"]
    /\ after' = [after EXCEPT ![r] = job_id]
    /\ loop' = 0
    /\ UNCHANGED <<env, job_id, route, body, job, job_results>>

\* line 115: return jsonable_encoder(job_results)
run_return(r) ==
    /\ pc[r] = "cleared" /\ route[r] = "run" /\ loop = r
    /\ response' = [response EXCEPT ![r] = jsonable_encoder(job_results[r])]
    /\ pc' = [pc EXCEPT ![r] = "done"]
    /\ after' = [after EXCEPT ![r] = job_id]
    /\ loop' = 0
    /\ UNCHANGED <<env, job_id, route, body, job, job_results>>

run(r) ==
    \/ run_enter(r)
    \/ run_invoke(r)
    \/ run_result(r)
    \/ run_clear(r)
    \/ run_return(r)

\* ------------------------------------------------------ WorkerAPI.test_run
\* Variant of test_run_enter that stamps the id onto the no-handler error.
test_run_enter_stamps(r) ==
    /\ pc[r] = "pending" /\ route[r] = "test_run" /\ loop = 0
    /\ IF config.handler = None
         THEN /\ response' = [response EXCEPT
                                ![r] = SetItem(HandlerNotProvided, "id", job[r].id)]
              /\ pc' = [pc EXCEPT ![r] = "done"]
              /\ after' = [after EXCEPT ![r] = job_id]
              /\ UNCHANGED <<job_id, loop>>
         ELSE /\ set_job_id(job[r].id)
              /\ pc' = [pc EXCEPT ![r] = "set"]
              /\ loop' = r
              /\ UNCHANGED <<response, after>>
    /\ UNCHANGED <<env, route, body, job, job_results>>

\* Variant of test_run_enter that sets the job id only into an empty store.
test_run_enter_if_empty(r) ==
    /\ pc[r] = "pending" /\ route[r] = "test_run" /\ loop = 0
    /\ IF config.handler = None
         THEN /\ response' = [response EXCEPT ![r] = HandlerNotProvided]
              /\ pc' = [pc EXCEPT ![r] = "done"]
              /\ after' = [after EXCEPT ![r] = job_id]
              /\ UNCHANGED <<job_id, loop>>
         ELSE /\ IF job_id = None THEN set_job_id(job[r].id) ELSE UNCHANGED job_id
              /\ pc' = [pc EXCEPT ![r] = "set"]
              /\ loop' = r
              /\ UNCHANGED <<response, after>>
    /\ UNCHANGED <<env, route, body, job, job_results>>

\* lines 121-125: the handler check and set_job_id(job.id)
test_run_enter(r) ==
    /\ pc[r] = "pending" /\ route[r] = "test_run" /\ loop = 0
    /\ IF config.handler = None
         THEN /\ response' = [response EXCEPT ![r] = HandlerNotProvided]
              /\ pc' = [pc EXCEPT ![r] = "done"]
              /\ after' = [after EXCEPT ![r] = job_id]
              /\ UNCHANGED <<job_id, loop>>
         ELSE /\ set_job_id(job[r].id)
              /\ pc' = [pc EXCEPT ![r] = "set"]
              /\ loop' = r
              /\ UNCHANGED <<response, after>>
    /\ UNCHANGED <<env, route, body, job, job_results>>

\* line 127: run_job is entered, the handler is executing
test_run_invoke(r) ==
    /\ pc[r] = "set" /\ route[r] = "test_run" /\ loop = r
    /\ pc' = [pc EXCEPT ![r] = "in_handler"]
    /\ UNCHANGED <<env, job_id, loop, route, body, job, job_results, response, after>>

\* Variant of test_run_result that unregisters the handler after the call.
test_run_result_drops_handler(r) ==
    /\ pc[r] = "in_handler" /\ route[r] = "test_run" /\ loop = r
    /\ job_results' = [job_results EXCEPT ![r] = run_job(config.handler, job[r])]
    /\ pc' = [pc EXCEPT ![r] = "ran"]
    /\ config' = [handler |-> None]
    /\ UNCHANGED <<RUNPOD_ENDPOINT_ID, heartbeat, constructed, routes, serving,
                   job_id, loop, route, body, job, response, after>>

\* line 127: run_job returns and job_results is assigned
test_run_result(r) ==
    /\ pc[r] = "in_handler" /\ route[r] = "test_run" /\ loop = r
    /\ job_results' = [job_results EXCEPT ![r] = run_job(config.handler, job[r])]
    /\ pc' = [pc EXCEPT ![r] = "ran"]
    /\ UNCHANGED <<env, job_id, loop, route, body, job, response, after>>

\* Variant of test_run_stamp that leaves the result as run_job returned it.
test_run_stamp_skipped(r) ==
    /\ pc[r] = "ran" /\ route[r] = "test_run" /\ loop = r
    /\ pc' = [pc EXCEPT ![r] = "stamped"]
    /\ UNCHANGED <<env, job_id, loop, route, body, job, job_results, response, after>>

\* Variant of test_run_stamp that keeps an id key the result already carries
\* (job_results.setdefault("id", job.id)).
test_run_stamp_setdefault(r) ==
    /\ pc[r] = "ran" /\ route[r] = "test_run" /\ loop = r
    /\ IF IsMapping(job_results[r])
         THEN /\ job_results' = [job_results EXCEPT
                                   ![r] = IF HasKey(job_results[r], "id")
                                            THEN job_results[r]
                                            ELSE SetItem(job_results[r], "id", job[r].id)]
              /\ pc' = [pc EXCEPT ![r] = "stamped"]
              /\ UNCHANGED <<loop, after>>
         ELSE /\ pc' = [pc EXCEPT ![r] = "fault"]
              /\ after' = [after EXCEPT ![r] = job_id]
              /\ loop' = 0
              /\ UNCHANGED job_results
    /\ UNCHANGED <<env, job_id, route, body, job, response>>

\* line 129: job_results["id"] = job.id.  Item assignment with a string key
\* on a value that is not a dict raises TypeError; nothing catches it, so the
\* coroutine ends there and the exception reaches the transport layer.
test_run_stamp(r) ==
    /\ pc[r] = "ran" /\ route[r] = "test_run" /\ loop = r
    /\ IF IsMapping(job_results[r])
         THEN /\ job_results' = [job_results EXCEPT
                                   ![r] = SetItem(job_results[r], "id", job[r].id)]
              /\ pc' = [pc EXCEPT ![r] = "stamped"]
              /\ UNCHANGED <<loop, after>>
         ELSE /\ pc' = [pc EXCEPT ![r] = "fault"]
              /\ after' = [after EXCEPT ![r] = job_id]
              /\ loop' = 0
              /\ UNCHANGED job_results
    /\ UNCHANGED <<env, job_id, route, body, job, response>>

\* Variant of test_run_clear that forgets to reset the job id.
test_run_clear_skipped(r) ==
    /\ pc[r] = "stamped" /\ route[r] = "test_run" /\ loop = r
    /\ pc' = [pc EXCEPT ![r] = "cleared"]
    /\ UNCHANGED <<env, job_id, loop, route, body, job, job_results, response, after>>

\* line 132: set_job_id(None)
test_run_clear(r) ==
    /\ pc[r] = "stamped" /\ route[r] = "test_run" /\ loop = r
    /\ set_job_id(None)
    /\ pc' = [pc EXCEPT ![r] = "cleared"]
    /\ UNCHANGED <<env, loop, route, body, job, job_results, response, after>>

\* line 134: return jsonable_encoder(job_results)
test_run_return(r) ==
    /\ pc[r] = "cleared" /\ route[r] = "test_run" /\ loop = r
    /\ response' = [response EXCEPT ![r] = jsonable_encoder(job_results[r])]
    /\ pc' = [pc EXCEPT ![r] = "done"]
    /\ after' = [after EXCEPT ![r] = job_id]
    /\ loop' = 0
    /\ UNCHANGED <<env, job_id, route, body, job, job_results>>

test_run(r) ==
    \/ test_run_enter(r)
    \/ test_run_invoke(r)
    \/ test_run_result(r)
    \/ test_run_stamp(r)
    \/ test_run_clear(r)
    \/ test_run_return(r)

Next ==
    \/ \E h \in HandlerNames \cup {None} : WorkerAPI_init(h)
    \/ start_uvicorn
    \/ \E r \in Reqs, rt \in RouteNames, b \in Bodies : Post(r, rt, b)
    \/ \E r \in Reqs : run(r)
    \/ \E r \in Reqs : test_run(r)

Spec == Init /\ [][Next]_vars

TypeOK ==
    /\ RUNPOD_ENDPOINT_ID \in EndpointIds
    /\ job_id \in ExplicitIds \cup {"test_job", None}
    /\ loop \in Reqs \cup {0}
    /\ \A r \in Reqs : pc[r] \in {"free", "not_found", "invalid", "pending", "set",
                                  "in_handler", "ran", "stamped", "cleared",
                                  "done", "fault"}

\* ------------------------------------ several WorkerAPI objects in a process
\* WorkerAPI.__init__(handler) run again in the same process, before
\* start_uvicorn blocks the main thread: the module-level heartbeat is started
\* again, the new object gets its own config and router (the same routes,
\* they depend on the module constant only), and either object may be the one
\* that start_uvicorn is called on later.
WorkerAPI_init_again(handler) ==
    /\ constructed
    /\ ~serving
    /\ heartbeat.starts < MaxApis
    /\ start_ping
    /\ config' \in {config, [handler |-> handler]}
    /\ routes' = add_api_routes(RUNPOD_ENDPOINT_ID)
    /\ UNCHANGED <<RUNPOD_ENDPOINT_ID, job_id, constructed, serving, loop, pc,
                   route, body, job, job_results, response, after>>

NextMulti ==
    \/ Next
    \/ \E h \in HandlerNames \cup {None} : WorkerAPI_init_again(h)

SpecMulti == Init /\ [][NextMulti]_vars

\* ------------------------------------------------------ the heartbeat thread
\* The loop of the thread started by start_ping: on every period it begins an
\* emission attempt, which later ends, delivered or failed (a failure is
\* swallowed and the loop goes on).  It is a thread of its own: neither step
\* reads or writes anything of the request handling.
ping_begin ==
    /\ heartbeat.starts > 0
    /\ ~heartbeat.sending
    /\ heartbeat' = [heartbeat EXCEPT !.sending = TRUE, !.beat = 1 - @]
    /\ UNCHANGED <<RUNPOD_ENDPOINT_ID, job_id, constructed, config, routes, serving,
                   loop, pc, route, body, job, job_results, response, after>>

ping_end ==
    /\ heartbeat.sending
    /\ heartbeat' = [heartbeat EXCEPT !.sending = FALSE]
    /\ UNCHANGED <<RUNPOD_ENDPOINT_ID, job_id, constructed, config, routes, serving,
                   loop, pc, route, body, job, job_results, response, after>>

\* Request bodies used together with the heartbeat thread.
HeartbeatBodies == [id : {"job-1", Missing}, input : {"x"}]

NextHeartbeat ==
    \/ \E h \in HandlerNames \cup {None} : WorkerAPI_init(h)
    \/ start_uvicorn
    \/ \E r \in Reqs, rt \in RouteNames, b \in HeartbeatBodies : Post(r, rt, b)
    \/ \E r \in Reqs : run(r)
    \/ \E r \in Reqs : test_run(r)
    \/ ping_begin
    \/ ping_end

\* The heartbeat thread is scheduled fairly; nothing is assumed about the
\* requests: a handler may run for ever and a request may never be served.
SpecHeartbeat ==
    Init /\ [][NextHeartbeat]_vars /\ WF_vars(ping_begin) /\ WF_vars(ping_end)

\* ------------------------------------------------------------- properties
\* Requests whose coroutine has set the job id and not yet reset it.
Holding(r) == pc[r] \in {"set", "in_handler", "ran", "stamped"}

\* Requests whose coroutine has ended, by return or by an uncaught exception.
Ended(r) == pc[r] \in {"done", "fault"}

\* C1: while a dispatch with a handler is between its set and its clear (the
\* handler execution included) the store holds that job's id, and at the
\* moment the dispatch returns its response the store is empty.
C1_StoreHoldsJobDuringHandler ==
    \A r \in Reqs :
        /\ Holding(r) => job_id = job[r].id
        /\ (pc[r] = "done" /\ config.handler # None) => after[r] = None

\* C1 witness: a handler is executing for one job while a request for a
\* different job is waiting for the event loop.
C1_Witness ==
    \E r, q \in Reqs :
        /\ pc[r] = "in_handler" /\ pc[q] = "pending"
        /\ job[q].id # job[r].id
        /\ job_id = job[r].id

\* C2 (as claimed): every dispatch that set the job id has the store empty
\* when it ends, whether it returned or raised.
C2_ClearedOnEveryExit ==
    \A r \in Reqs :
        (Ended(r) /\ config.handler # None) => after[r] = None

\* C3: with no handler registered, the step that runs a pending dispatch
\* leaves the store as it was, never enters run_job, and returns exactly
\* {"error": "Handler not provided"}.
C3_NoHandlerFrame ==
    [][\A r \in Reqs :
         (config.handler = None /\ pc[r] = "pending" /\ pc'[r] # "pending")
            => /\ job_id' = job_id
               /\ pc'[r] = "done"
               /\ job_results'[r] = job_results[r]
               /\ response'[r] = PyDict({<<"error", "Handler not provided">>})
               /\ Keys(response'[r]) = {"error"}]_vars

\* C3 witness: with no handler, a real-route and a test-route dispatch have
\* both been answered.
C3_Witness ==
    /\ constructed /\ config.handler = None
    /\ \E r, q \in Reqs :
          /\ route[r] = "run" /\ pc[r] = "done"
          /\ route[q] = "test_run" /\ pc[q] = "done"
          /\ job_id = None

\* C4 (as claimed): no handler, body without id posted to the test route:
\* the response is {"error": "Handler not provided", "id": "test_job"}.
C4_NoHandlerStamped ==
    \A r \in Reqs :
        (config.handler = None /\ route[r] = "test_run" /\ pc[r] = "done"
           /\ body[r].id = Missing)
        => response[r] = PyDict({<<"error", "Handler not provided">>,
                                 <<"id", "test_job">>})

\* C4 (amended): no handler, body without id posted to the test route: the
\* response is {"error": "Handler not provided"} and carries no id key.
C4_NoHandlerNotStamped ==
    \A r \in Reqs :
        (config.handler = None /\ route[r] = "test_run" /\ pc[r] = "done"
           /\ body[r].id = Missing)
        => /\ response[r] = PyDict({<<"error", "Handler not provided">>})
           /\ ~HasKey(response[r], "id")

\* C4 witness: such a request has been answered.
C4_Witness ==
    \E r \in Reqs :
        /\ constructed /\ config.handler = None
        /\ route[r] = "test_run" /\ pc[r] = "done" /\ body[r].id = Missing
        /\ job[r].id = "test_job"

\* The registered handler raises when called with the job of request r.
HandlerRaises(r) ==
    /\ config.handler # None
    /\ pc[r] \notin {"free", "not_found", "invalid"}
    /\ HandlerCall(config.handler, job[r]).raised

\* C5: a dispatch whose handler raises never ends in an uncaught exception,
\* and its response is {"error": <non-empty message>} on the real route and
\* the same plus "id": <job id> on the test route.
C5_HandlerFailureIsData ==
    \A r \in Reqs :
        HandlerRaises(r) =>
            /\ pc[r] # "fault"
            /\ pc[r] = "done" =>
                 /\ HasKey(response[r], "error")
                 /\ GetItem(response[r], "error") # ""
                 /\ GetItem(response[r], "error")
                      = HandlerCall(config.handler, job[r]).msg
                 /\ IF route[r] = "test_run"
                      THEN /\ Keys(response[r]) = {"error", "id"}
                           /\ GetItem(response[r], "id") = job[r].id
                      ELSE Keys(response[r]) = {"error"}

\* C5 witness: a raising handler has been dispatched through both routes and
\* both dispatches have returned.
C5_Witness ==
    \E r, q \in Reqs :
        /\ HandlerRaises(r) /\ route[r] = "run" /\ pc[r] = "done"
        /\ HandlerRaises(q) /\ route[q] = "test_run" /\ pc[q] = "done"

\* C6 (as claimed): whatever the handler configuration, the response to a
\* test-route request without id carries id = "test_job".
C6_DefaultIdAlways ==
    \A r \in Reqs :
        (route[r] = "test_run" /\ pc[r] = "done" /\ body[r].id = Missing)
        => /\ HasKey(response[r], "id")
           /\ GetItem(response[r], "id") = "test_job"

\* C6 (amended): for a test-route request without id, a response returned
\* with a handler registered carries id = "test_job", and the response
\* returned with no handler registered carries no id.
C6_DefaultIdWithHandler ==
    \A r \in Reqs :
        (route[r] = "test_run" /\ pc[r] = "done" /\ body[r].id = Missing)
        => IF config.handler # None
             THEN /\ HasKey(response[r], "id")
                  /\ GetItem(response[r], "id") = "test_job"
             ELSE ~HasKey(response[r], "id")

\* C6 witness: a handler is registered and a test-route request without id
\* has been answered.
C6_Witness ==
    \E r \in Reqs :
        /\ config.handler # None
        /\ route[r] = "test_run" /\ pc[r] = "done" /\ body[r].id = Missing
        /\ HasKey(response[r], "id")

\* C7: the response of a test-route dispatch with a handler is the job
\* runner's result with key id set to the job's id: an id the result carried
\* is overwritten, every other key keeps its value, no other key appears.
C7_TestRouteStampsId ==
    \A r \in Reqs :
        (route[r] = "test_run" /\ pc[r] = "done" /\ config.handler # None)
        => LET res == run_job(config.handler, job[r])
           IN  /\ IsMapping(response[r])
               /\ Keys(response[r]) = Keys(res) \cup {"id"}
               /\ GetItem(response[r], "id") = job[r].id
               /\ \A k \in Keys(res) \ {"id"} :
                     GetItem(response[r], k) = GetItem(res, k)
               /\ (config.handler = "h_result" /\ job[r].id = "job-1")
                     => response[r] = PyDict({<<"result", "42">>, <<"id", "job-1">>})

\* C7 witness: the handler result carried its own id key and the response
\* carries the job's id instead.
C7_Witness ==
    \E r \in Reqs :
        /\ route[r] = "test_run" /\ pc[r] = "done" /\ config.handler # None
        /\ HasKey(run_job(config.handler, job[r]), "id")
        /\ GetItem(run_job(config.handler, job[r]), "id") # job[r].id
        /\ GetItem(response[r], "id") = job[r].id

\* C8: the response of a real-route dispatch with a handler is the job
\* runner's result itself: same type, same keys, same values, no id added.
C8_RealRouteVerbatim ==
    \A r \in Reqs :
        (route[r] = "run" /\ pc[r] = "done" /\ config.handler # None)
        => LET res == run_job(config.handler, job[r])
           IN  /\ response[r].type = res.type
               /\ response[r].items = res.items

\* C8 witness: an error payload and nothing else has been returned on the
\* real route.
C8_Witness ==
    \E r \in Reqs :
        /\ route[r] = "run" /\ pc[r] = "done" /\ config.handler # None
        /\ Keys(response[r]) = {"error"}

\* C9: once the WorkerAPI is constructed the real-job route is registered
\* exactly when RUNPOD_ENDPOINT_ID is set (non-empty), the test route is
\* always registered, and without the identifier no request ever reaches
\* run, so none changes the store.
C9_RealRouteIffEndpointId ==
    /\ constructed =>
          /\ (RealtimePath(RUNPOD_ENDPOINT_ID) \in routes) <=> Truthy(RUNPOD_ENDPOINT_ID)
          /\ RunsyncPath \in routes
    /\ ~Truthy(RUNPOD_ENDPOINT_ID) =>
          \A r \in Reqs : route[r] = "run" => pc[r] \in {"free", "not_found"}

\* C9 witness: no identifier is configured, a request to the real-job path
\* was answered not-found and a test-route dispatch was served.
C9_Witness ==
    /\ constructed /\ RUNPOD_ENDPOINT_ID = None
    /\ \E r, q \in Reqs :
          /\ route[r] = "run" /\ pc[r] = "not_found"
          /\ route[q] = "test_run" /\ pc[q] = "done"

\* C10 (as claimed): two dispatches of the same test job (same id, same
\* input) both return, return equal responses, and each leaves the store
\* empty.
C10_SameJobTwice ==
    \A r, q \in Reqs :
        (r # q /\ route[r] = "test_run" /\ route[q] = "test_run"
           /\ Ended(r) /\ Ended(q) /\ job[r] = job[q])
        => /\ pc[r] = "done" /\ pc[q] = "done"
           /\ response[r] = response[q]
           /\ after[r] = None /\ after[q] = None

\* The events of the dispatch of request r, read off a step of the model.
SetEvent(r) == pc[r] = "pending" /\ pc'[r] # "pending" /\ job_id' = job[r].id
InvokeEvent(r) == pc[r] # "in_handler" /\ pc'[r] = "in_handler"
StampEvent(r) == route[r] = "test_run" /\ pc[r] = "ran" /\ job_results'[r] # job_results[r]
ClearEvent(r) == loop = r /\ job_id # None /\ job_id' = None
EncodeEvent(r) == config.handler # None /\ pc[r] # "done" /\ pc'[r] = "done"

\* C11: in a dispatch with a handler the handler is invoked only after the
\* set, the store is cleared only after the handler has returned (and, on
\* the test route, after the stamping), and the response is encoded only
\* after the clear; the stamping follows the handler's return.
C11_DispatchOrder ==
    [][\A r \in Reqs :
         /\ SetEvent(r) => (pc'[r] = "set" /\ job_results[r] = NoValue)
         /\ InvokeEvent(r) => (pc[r] = "set" /\ job_id = job[r].id
                                /\ job_results[r] = NoValue)
         /\ StampEvent(r) => (job_results[r] = run_job(config.handler, job[r])
                               /\ job_id = job[r].id)
         /\ ClearEvent(r) =>
              /\ pc[r] = (IF route[r] = "test_run" THEN "stamped" ELSE "ran")
              /\ job_results[r] =
                   (IF route[r] = "test_run"
                      THEN SetItem(run_job(config.handler, job[r]), "id", job[r].id)
                      ELSE run_job(config.handler, job[r]))
         /\ EncodeEvent(r) => (pc[r] = "cleared" /\ job_id = None
                                /\ response'[r] = jsonable_encoder(job_results[r]))]_vars

\* C11 witness: dispatches on both routes have gone through all their
\* events and returned.
C11_Witness ==
    \E r, q \in Reqs :
        /\ config.handler # None
        /\ route[r] = "run" /\ pc[r] = "done"
        /\ route[q] = "test_run" /\ pc[q] = "done"

\* C12 (as claimed): start_ping is invoked exactly once in the process, at
\* construction, also when several WorkerAPI objects are constructed, and no
\* step of run or test_run starts or stops the heartbeat.
C12_HeartbeatStartedOnce ==
    /\ [](heartbeat.starts = (IF constructed THEN 1 ELSE 0))
    /\ [][(\E r \in Reqs : pc'[r] # pc[r]) => heartbeat' = heartbeat]_vars

\* The coroutine of request r can take its next step: the running one always,
\* a pending one whenever the event loop is free.
CanStep(r) ==
    /\ (loop = r) => ENABLED (run(r) \/ test_run(r))
    /\ (pc[r] = "pending" /\ loop = 0) => ENABLED (run_enter(r) \/ test_run_enter(r))

\* C13: once the WorkerAPI is constructed, emission attempts occur again and
\* again in every fair schedule of the heartbeat thread, whatever the
\* requests do (none posted, a handler that never returns); and whatever
\* the heartbeat does (an emission that never ends included), the next step
\* of a dispatch is never blocked.
C13_HeartbeatIndependent ==
    /\ [](constructed => <>(heartbeat.beat = 1))
    /\ [](constructed => <>(heartbeat.beat = 0))
    /\ [](\A r \in Reqs : CanStep(r))

\* C13 witness: an emission attempt is in progress while a handler is
\* executing.
C13_Witness ==
    \E r \in Reqs :
        /\ pc[r] = "in_handler"
        /\ heartbeat.sending /\ heartbeat.beat = 1

\* C14: once the WorkerAPI is constructed no step changes config, so every
\* dispatch, whatever its outcome, reads the handler given at construction.
C14_HandlerFixed ==
    [][constructed => config' = config]_vars

\* C14 witness: with a raising handler registered, one dispatch has returned
\* and the handler is registered still while the next one executes it.
C14_Witness ==
    \E r, q \in Reqs :
        /\ r # q /\ pc[r] = "done" /\ HandlerRaises(r)
        /\ pc[q] = "in_handler"
        /\ config.handler # None

\* The step sets / resets the store on behalf of request r.
SetStep(r) == pc[r] = "pending" /\ pc'[r] = "set"
ClearStep(r) == pc[r] # "cleared" /\ pc'[r] = "cleared"

\* C15: the store is a single slot without queue or owner: a set writes the
\* setter's job id whatever the store held, a clear empties it whatever it
\* held, and no other step changes it, so it always holds the latest write.
C15_LastWriteWins ==
    [][/\ \A r \in Reqs : SetStep(r) => job_id' = job[r].id
       /\ \A r \in Reqs : ClearStep(r) => job_id' = None
       /\ (\A r \in Reqs : ~SetStep(r) /\ ~ClearStep(r)) => job_id' = job_id]_vars

\* C15 witness: the store still held the id of an earlier dispatch when another
\* dispatch set its own, different id over it.
C15_Witness ==
    \E r, q \in Reqs :
        /\ pc[r] = "fault" /\ after[r] = job[r].id
        /\ Holding(q) /\ job[q].id # job[r].id
        /\ job_id = job[q].id

\* The job runner returns a mapping for every job dispatched so far.
MappingRunner ==
    config.handler # None =>
        \A r \in Reqs :
            pc[r] \notin {"free", "not_found", "invalid"}
                => IsMapping(run_job(config.handler, job[r]))

\* C16: provided the job runner returns mappings, the store is empty or holds
\* the id of a dispatch between its set and its clear, and it is empty
\* whenever no coroutine is running.
C16_StoreEmptyOrInFlight ==
    MappingRunner =>
        /\ job_id = None \/ \E r \in Reqs : Holding(r) /\ job_id = job[r].id
        /\ loop = 0 => job_id = None

\* C16 witness: one dispatch has returned and left the store empty, no
\* coroutine is running, and another request is waiting.
C16_Witness ==
    \E r, q \in Reqs :
        /\ config.handler # None /\ MappingRunner
        /\ route[r] = "test_run" /\ pc[r] = "done"
        /\ pc[q] = "pending" /\ loop = 0 /\ job_id = None

\* C17: while a dispatch is between its set and its clear no other request's
\* coroutine takes a step (a request may only arrive), and two dispatches are
\* never both between set and clear.
C17_NoInterleaving ==
    /\ [][\A r, q \in Reqs :
            (r # q /\ Holding(r)) => (pc'[q] = pc[q] \/ pc[q] = "free")]_vars
    /\ [](\A r, q \in Reqs : (Holding(r) /\ Holding(q)) => r = q)

\* C17 witness: a test-route dispatch has stamped its result and not yet
\* cleared the store while another request waits for the event loop.
C17_Witness ==
    \E r, q \in Reqs :
        /\ r # q /\ pc[r] = "stamped" /\ pc[q] = "pending"
        /\ loop = r

====
